---- MODULE Spec2Model ----
(***************************************************************************)
(* Model of the strgen backend (package rest): the request handler         *)
(* HandleGenerateFileSingleMarker and the pure functions it calls.         *)
(*                                                                         *)
(* Numbers.  The Go code computes in float64.  The model uses fixed-point  *)
(* integers: distances, positions and elevations in millimetres, speeds in *)
(* mm/s, heart rate and cadence in thousandths of a beat or step per       *)
(* minute, pace in thousandths of a minute per kilometre, time in whole    *)
(* seconds.  A float64 -> int conversion truncates toward zero (TruncDiv). *)
(*                                                                         *)
(* Geometry.  Waypoints lie on one meridian (lon = 0) and lat is the arc   *)
(* length along it in millimetres.  On a meridian the haversine distance   *)
(* is the difference of the arc lengths, the initial bearing is 0 (north)  *)
(* or 180 (south), and the destination point moves the arc length by the   *)
(* distance travelled.                                                     *)
(*                                                                         *)
(* Go slices are 0-indexed, TLA+ sequences 1-indexed: Go's s[i] is s[i+1]. *)
(***************************************************************************)
EXTENDS Integers, Sequences, FiniteSets, TLC

VARIABLES
    pc,                 \* position of the handler
    routeLength,        \* requestBody.RouteLength
    gpxData,            \* what fetchRoundTripRoute returned
    points,             \* parseGPX's result
    totalTimeSeconds,   \* the handler's local of that name
    speedProfile,
    elevationChanges,
    bpmProfileFloat,
    cadenceProfile,
    interpolatedPoints,
    currentTime,
    segIndex,           \* the interpolation loop's i
    timestamps,
    response,           \* what was written to the gin context
    built,              \* the synthesis steps that have run (history)
    drawn,              \* the values drawn from the random source (history)
    first,              \* the previous request and its response (history)
    clock,              \* the latest reading of time.Now(), in seconds
    unit,               \* a pure function applied on its own: inputs and result
    globalRand,         \* the process-wide source of package rand
    runs,               \* the handlers running at the same time, by request
    client_counter,     \* Handler.client_counter, by client IP
    mu,                 \* Handler.mu: "free" or "held"
    calls,              \* the Middleware calls in progress
    resetters,          \* the resetClientCounter goroutines alive
    ticks,              \* time.Now(), in ticks of half a reset time
    admitted,           \* requests passed on since the client's last reset (history)
    markers,            \* MainPage's markers: click and address of each
    lookups,            \* the clicks whose reverse-geocoding fetch is in flight
    clicks,             \* the map clicks so far
    appended,           \* how often each click's marker was appended (history)
    cleared,            \* the clicks whose marker Clear Markers removed (history)
    processedData,      \* MainPage's processedData: 0 is null, else the response
    showPopup,          \* MainPage's showPopup
    requests,           \* the generate-single requests in flight
    sent,               \* the generate-single requests sent so far
    successes,          \* the successful responses so far (history)
    event,              \* the handler that ran last (history)
    titlesLength,       \* ShiftingTitle's titles.length
    currentIndex,       \* ShiftingTitle's currentIndex
    fade,               \* ShiftingTitle's fade
    timers              \* ShiftingTitle's pending timeouts

throttleVars == << client_counter, mu, calls, resetters, ticks, admitted >>

pageVars == << markers, lookups, clicks, appended, cleared, processedData, showPopup,
              requests, sent, successes, event, titlesLength, currentIndex, fade,
              timers >>

vars == << pc, routeLength, gpxData, points, totalTimeSeconds, speedProfile,
           elevationChanges, bpmProfileFloat, cadenceProfile,
           interpolatedPoints, currentTime, segIndex, timestamps, response,
           built, drawn, first, clock, unit, globalRand, runs, throttleVars, pageVars >>

----------------------------------------------------------------------------
(* Bounds of the model *)

MaxRouteLength == 6

NegRouteLength == 2

MaxClock == 1

MaxUnitSeconds == 3

MaxInterval == 3

MaxTicks == 4

MaxClicks == 2

MaxRequests == 2

(* Program constants *)

AvgSpeed == 1500

AvgBPM == 120000

AvgCadence == 80000

SpeedDecrease == 200

PaceSentinel == 999000

----------------------------------------------------------------------------
(* Helpers of the fixed-point arithmetic *)

Abs(x) == IF x < 0 THEN -x ELSE x

\* Go's int(a / b) for b > 0: the quotient truncated toward zero.
TruncDiv(a, b) == IF a >= 0 THEN a \div b ELSE -((-a) \div b)

(* Rounding of float64 sums and differences, scaled down: a value is a     *)
(* whole number of units with a significand below SignificandLimit, the    *)
(* way a float64 has one below 2^53.  Smaller magnitudes are exact.        *)
SignificandLimit == 2 ^ 13

\* The spacing of the representable values around magnitude a >= 0.
RECURSIVE ulpOf(_)
ulpOf(a) == IF a < SignificandLimit THEN 1 ELSE 2 * ulpOf(a \div 2)

\* a >= 0 rounded to the nearest multiple of q, ties to the even multiple.
roundToEven(a, q) ==
    LET m == a \div q
        r == a % q
    IN  IF 2 * r < q THEN m * q
        ELSE IF 2 * r > q THEN (m + 1) * q
        ELSE IF m % 2 = 0 THEN m * q ELSE (m + 1) * q

\* The representable value nearest to x: the result of one float operation
\* whose exact result is x.
fl(x) == IF x >= 0 THEN roundToEven(x, ulpOf(x)) ELSE -roundToEven(-x, ulpOf(-x))

\* The logistic function 1 / (1 + exp(-x)) at whole x, in thousandths.
LogisticNode(k) ==
    CASE k <= -3 -> 47
      [] k = -2 -> 119
      [] k = -1 -> 269
      [] k = 0 -> 500
      [] k = 1 -> 731
      [] k = 2 -> 881
      [] k = 3 -> 953
      [] k = 4 -> 982
      [] k = 5 -> 993
      [] k = 6 -> 998
      [] OTHER -> 999

\* 1 / (1 + math.Exp(-x)), x in thousandths, result in thousandths: linear
\* between the whole values of x.
LogisticMilli(x) ==
    LET k == x \div 1000
        f == x - 1000 * k
    IN  LogisticNode(k) + ((LogisticNode(k + 1) - LogisticNode(k)) * f) \div 1000

----------------------------------------------------------------------------
(* Geodesic functions, on a meridian *)

haversineDistance(p1, p2) == Abs(p2.lat - p1.lat)

\* atan2(0, sin(lat2 - lat1)): 0 when lat2 >= lat1 (atan2(0, 0) = 0), else 180.
calculateInitialCompassBearing(p1, p2) == IF p2.lat >= p1.lat THEN 0 ELSE 180

destinationPoint(lat1, bearing, distance) ==
    IF bearing = 0 THEN lat1 + distance ELSE lat1 - distance

----------------------------------------------------------------------------
(* Profile generators.  The draws of the random source are parameters:     *)
(* noise[i+1] is rand.NormFloat64() * 1.8 of index i, jitter[i+1] is       *)
(* rand.Intn(3) - 1 of index i.  Each generator panics (make with a        *)
(* negative length, or index 0 of an empty slice) when totalSeconds <= 0.  *)

createSpeedProfilePanics(totalSeconds) == totalSeconds <= 0

\* createSpeedProfile without lines 413-418: the decline is applied and the
\* result is not raised to the floor.
createSpeedProfileNoFloor(totalSeconds, avgSpeed, speedDecrease, noise) ==
    [i \in 1..totalSeconds |->
        avgSpeed + (IF i = 1 THEN (2 * avgSpeed) \div 10 ELSE noise[i])
        - (speedDecrease * (i - 1)) \div totalSeconds]

createSpeedProfile(totalSeconds, avgSpeed, speedDecrease, noise) ==
    LET randomFluctuations == [i \in 1..totalSeconds |->
            IF i = 1 THEN (2 * avgSpeed) \div 10 ELSE noise[i]]
        desiredSpeeds == [i \in 1..totalSeconds |-> avgSpeed + randomFluctuations[i]]
        declined == [i \in 1..totalSeconds |->
            desiredSpeeds[i] - (speedDecrease * (i - 1)) \div totalSeconds]
        minSpeed == (avgSpeed * 9) \div 10
    IN  [i \in 1..totalSeconds |->
            IF declined[i] < minSpeed THEN minSpeed ELSE declined[i]]

\* speedProfile[t] is read for t = 1 .. totalSeconds-1.
profilePanics(totalSeconds, speed) ==
    totalSeconds <= 0 \/ totalSeconds > Len(speed)

createBPMProfile(totalSeconds, avgBPM, avgSpeed, speed, elevation, jitter) ==
    [i \in 1..totalSeconds |->
        IF i = 1 THEN avgBPM - 20000
        ELSE LET t == i - 1
                 sigmoid == LogisticMilli((12000 * t) \div totalSeconds - 2400)
                 baseBPM == -20000 + 20 * sigmoid
                 speedDeviation == speed[i] - avgSpeed
                 bpmSpeed == speedDeviation * 10
                 elevationChange == IF t < Len(elevation) THEN elevation[i] ELSE 0
                 bpmElevation == elevationChange * 8
                 bpmTotal == avgBPM + baseBPM + bpmSpeed + bpmElevation
                             + 1000 * jitter[i]
             IN  IF bpmTotal < 60000 THEN 60000
                 ELSE IF bpmTotal > 200000 THEN 200000 ELSE bpmTotal]

createCadenceProfile(totalSeconds, avgCadence, avgSpeed, speed, elevation, jitter) ==
    [i \in 1..totalSeconds |->
        IF i = 1 THEN avgCadence + 1000 * jitter[1]
        ELSE LET t == i - 1
                 speedDeviation == speed[i] - avgSpeed
                 cadenceSpeed == speedDeviation * 3
                 elevationChange == IF t < Len(elevation) THEN elevation[i] ELSE 0
                 cadenceElevation == elevationChange * 2
                 cadenceTotal == avgCadence + cadenceSpeed + cadenceElevation
                                 + 1000 * jitter[i]
             IN  IF cadenceTotal < 30000 THEN 30000
                 ELSE IF cadenceTotal > 150000 THEN 150000 ELSE cadenceTotal]

\* generateTimestamps ignoring intervalSeconds: one second per step.
generateTimestampsOneSecond(numPoints, intervalSeconds, startTime) ==
    [i \in 1..numPoints |-> startTime + (i - 1)]

generateTimestamps(numPoints, intervalSeconds, startTime) ==
    [i \in 1..numPoints |-> startTime + (i - 1) * intervalSeconds]

----------------------------------------------------------------------------
(* Steps of the handler, as functions *)

\* int(float64(int(float64(routeLength) / AvgSpeed)) * 1.3); routeLength in m.
horizon(length) == TruncDiv(TruncDiv(length * 1000, AvgSpeed) * 13, 10)

\* The entries one waypoint pair appends (lines 220-229).
\* segmentElevation with line 225 appending eleChange undivided.
segmentElevationWholeDelta(p1, p2) ==
    LET eleChange == p2.ele - p1.ele
        distance == haversineDistance(p1, p2)
        numSeconds == TruncDiv(distance, AvgSpeed)
    IN  [j \in 1..numSeconds |-> eleChange]

segmentElevation(p1, p2) ==
    LET eleChange == p2.ele - p1.ele
        distance == haversineDistance(p1, p2)
        numSeconds == TruncDiv(distance, AvgSpeed)
    IN  [j \in 1..numSeconds |-> TruncDiv(eleChange, numSeconds)]

RECURSIVE extractElevation(_, _)
extractElevation(pts, i) ==
    IF i >= Len(pts) THEN << >>
    ELSE segmentElevation(pts[i], pts[i + 1]) \o extractElevation(pts, i + 1)

\* padElevation without the cut of line 237: a longer series is kept whole.
padElevationNoCut(changes, total) ==
    IF Len(changes) < total
    THEN changes \o [i \in 1..(total - Len(changes)) |-> 0]
    ELSE changes

\* Lines 231-238.
padElevation(changes, total) ==
    IF Len(changes) < total
    THEN changes \o [i \in 1..(total - Len(changes)) |-> 0]
    ELSE SubSeq(changes, 1, total)

\* The speed interpolatePoints uses: index currentTime, clamped.
speedAt(speed, time) ==
    IF time >= Len(speed) THEN speed[Len(speed)] ELSE speed[time + 1]

\* numSeconds of interpolatePoints (lines 429-433); the speed is positive.
\* interpolateSeconds without lines 431-433: a segment shorter than one
\* second of travel gets no sample.
interpolateSecondsNoMinimum(p1, p2, speed, time) ==
    TruncDiv(haversineDistance(p1, p2), speedAt(speed, time))

interpolateSeconds(p1, p2, speed, time) ==
    LET n == TruncDiv(haversineDistance(p1, p2), speedAt(speed, time))
    IN  IF n = 0 THEN 1 ELSE n

\* interpolatePoints with line 446 as ele := eleDiff * fraction: the start
\* elevation is left out.
interpolatePointsNoBaseEle(p1, p2, speed, totalTime, time) ==
    LET s == speedAt(speed, time)
        numSeconds == interpolateSeconds(p1, p2, speed, time)
        eleDiff == fl(p2.ele - p1.ele)
        bearing == calculateInitialCompassBearing(p1, p2)
    IN  [i \in 1..numSeconds |->
            [lat |-> destinationPoint(p1.lat, bearing, s * i),
             lon |-> p1.lon,
             ele |-> fl(TruncDiv(eleDiff * i, numSeconds))]]

interpolatePoints(p1, p2, speed, totalTime, time) ==
    LET s == speedAt(speed, time)
        numSeconds == interpolateSeconds(p1, p2, speed, time)
        eleDiff == fl(p2.ele - p1.ele)
        bearing == calculateInitialCompassBearing(p1, p2)
    IN  [i \in 1..numSeconds |->
            [lat |-> destinationPoint(p1.lat, bearing, s * i),
             lon |-> p1.lon,
             ele |-> fl(p1.ele + fl(TruncDiv(eleDiff * i, numSeconds)))]]

\* The handler's own duration of a segment (lines 252-258).
segmentDuration(p1, p2, speed, time) ==
    IF speed[time + 1] > 0
    THEN TruncDiv(haversineDistance(p1, p2), speed[time + 1])
    ELSE 1

\* reconcile padding with zeros instead of the profile's last value.
reconcilePadZero(profile, total) ==
    IF Len(profile) < total
    THEN profile \o [i \in 1..(total - Len(profile)) |-> 0]
    ELSE SubSeq(profile, 1, total)

\* Lines 269-276 and 279-286: pad with the last value, or cut.
reconcile(profile, total) ==
    IF Len(profile) < total
    THEN profile \o [i \in 1..(total - Len(profile)) |-> profile[Len(profile)]]
    ELSE SubSeq(profile, 1, total)

\* paceOf testing s < 0: a speed of 0 is divided by, which gives +Inf.
paceOfStrict(s) ==
    IF s < 0 THEN PaceSentinel
    ELSE IF s = 0 THEN 2147483647 ELSE 1000000000 \div (60 * s)

paceOf(s) == IF s <= 0 THEN PaceSentinel ELSE 1000000000 \div (60 * s)

\* paceProfileOf sized by the speed profile instead of totalInterpolated.
paceProfileOfSpeedLength(speed, total) ==
    LET cut == IF Len(speed) > total THEN SubSeq(speed, 1, total) ELSE speed
    IN  [i \in 1..Len(cut) |-> paceOf(cut[i])]

\* Lines 305-317: the speed profile is cut to total when longer; the entries
\* past a shorter speed profile keep make's zero.
paceProfileOf(speed, total) ==
    LET cut == IF Len(speed) > total THEN SubSeq(speed, 1, total) ELSE speed
    IN  [i \in 1..total |-> IF i <= Len(cut) THEN paceOf(cut[i]) ELSE 0]

\* Lines 297-300.
bpmInts(profile) == [i \in 1..Len(profile) |-> TruncDiv(profile[i], 1000)]

\* Lines 320-323.
routeOf(pts) == [i \in 1..Len(pts) |-> [lat |-> pts[i].lat, lon |-> pts[i].lon, ele |-> pts[i].ele]]

----------------------------------------------------------------------------
(* The route provider's answers.  A field of a route point is text: Num(v) *)
(* is text strconv.ParseFloat accepts, NotNum is text it rejects.          *)

Num(v) == [ok |-> TRUE, v |-> v]

NotNum == [ok |-> FALSE, v |-> 0]

Rtept(lat, ele) == [lat |-> Num(lat), lon |-> Num(0), ele |-> Num(ele)]

BadRtept == [lat |-> Num(0), lon |-> Num(0), ele |-> NotNum]

BadLatRtept == [lat |-> NotNum, lon |-> Num(0), ele |-> Num(0)]

BadLonRtept == [lat |-> Num(0), lon |-> NotNum, ele |-> Num(0)]

RteptLists ==
    { << >>,
      << BadRtept >>,
      << Rtept(0, 0) >>,
      << Rtept(0, 0), Rtept(0, 0) >>,
      << Rtept(0, 0), Rtept(1000, 0) >>,
      << Rtept(0, 0), Rtept(4000, 2000) >>,
      << Rtept(0, 0), Rtept(12000, 0) >>,
      << Rtept(3000, 0), Rtept(0, 3000), Rtept(3000, 0) >>,
      << Rtept(0, 0), BadRtept, Rtept(3000, 0) >>,
      << BadLatRtept, Rtept(0, 0), Rtept(3000, 0), BadLonRtept >>,
      << Rtept(0, 0), Rtept(12000, 0), Rtept(13000, 0) >>,
      << Rtept(0, 0), Rtept(3000, 0), Rtept(6000, 1000), Rtept(9000, 0) >> }

\* A response body the provider can send: XML that parses, or not.
GpxDocuments ==
    { [wellFormed |-> TRUE, rtepts |-> l] : l \in RteptLists }
    \cup { [wellFormed |-> FALSE, rtepts |-> << >>] }

RouteLengths == (0 - NegRouteLength) .. MaxRouteLength

\* rand.NormFloat64() * 1.8, in mm/s: one standard deviation either way.
NoiseDraws == { -1800, 1800 }

\* rand.Intn(3) - 1
JitterDraws == { -1, 0, 1 }

\* The draws of a generator that discards or skips index 0.
NoiseSeqs(n) == { d \in [1..n -> NoiseDraws \cup {0}] :
                    /\ d[1] = 0
                    /\ \A i \in 2..n : d[i] # 0 }

JitterSeqs(n) == [1..n -> JitterDraws]

JitterSeqsFrom1(n) == { d \in JitterSeqs(n) : d[1] = 0 }

\* A point that passes when only its latitude and elevation are checked.
isNumericNoLon(pt) == pt.lat.ok /\ pt.ele.ok

isNumeric(pt) == pt.lat.ok /\ pt.lon.ok /\ pt.ele.ok

toTrkpt(pt) == [lat |-> pt.lat.v, lon |-> pt.lon.v, ele |-> pt.ele.v]

RECURSIVE keepNumeric(_)
keepNumeric(rtepts) ==
    IF rtepts = << >> THEN << >>
    ELSE IF isNumeric(Head(rtepts))
         THEN << toTrkpt(Head(rtepts)) >> \o keepNumeric(Tail(rtepts))
         ELSE keepNumeric(Tail(rtepts))

parseGPX(doc) ==
    IF ~ doc.wellFormed
    THEN [err |-> TRUE, points |-> << >>]
    ELSE [err |-> FALSE, points |-> keepNumeric(doc.rtepts)]

----------------------------------------------------------------------------
(* The handler *)

NoResponse == [status |-> 0, error |-> "", record |-> << >>]

errorResponse(status, msg) == [status |-> status, error |-> msg, record |-> << >>]

NoDocument == [wellFormed |-> FALSE, rtepts |-> << >>]

NoUnit == [fn |-> "none"]

NoRun == [served |-> FALSE]

NoSource == [outputs |-> << >>, next |-> 1]

NoRuns == << >>

\* No browser: the page is not open.
PageIdle ==
    /\ markers = << >>
    /\ lookups = {}
    /\ clicks = 0
    /\ appended = << >>
    /\ cleared = {}
    /\ processedData = 0
    /\ showPopup = FALSE
    /\ requests = {}
    /\ sent = 0
    /\ successes = 0
    /\ event = "none"
    /\ titlesLength = 0
    /\ currentIndex = 0
    /\ fade = TRUE
    /\ timers = {}

\* No throttle: the middleware is not in use.
ThrottleIdle ==
    /\ client_counter = << >>
    /\ mu = "free"
    /\ calls = << >>
    /\ resetters = {}
    /\ ticks = 0
    /\ admitted = << >>

Init ==
    /\ pc = "bind"
    /\ routeLength = 0
    /\ gpxData = NoDocument
    /\ points = << >>
    /\ totalTimeSeconds = 0
    /\ speedProfile = << >>
    /\ elevationChanges = << >>
    /\ bpmProfileFloat = << >>
    /\ cadenceProfile = << >>
    /\ interpolatedPoints = << >>
    /\ currentTime = 0
    /\ segIndex = 0
    /\ timestamps = << >>
    /\ response = NoResponse
    /\ built = {}
    /\ drawn = << >>
    /\ first = NoRun
    /\ clock = 0
    /\ unit = NoUnit
    /\ globalRand = NoSource
    /\ runs = NoRuns
    /\ ThrottleIdle
    /\ PageIdle

synthesisVars == << totalTimeSeconds, speedProfile, elevationChanges,
                    bpmProfileFloat, cadenceProfile, interpolatedPoints,
                    currentTime, segIndex, timestamps, built, drawn >>

\* Lines 172-188: bind the request body; the client sends one of lengths.
BindRequestFrom(lengths) ==
    /\ pc = "bind"
    /\ \/ /\ response' = errorResponse(400, "Invalid request")
          /\ pc' = "done"
          /\ UNCHANGED routeLength
       \/ /\ \E l \in lengths : routeLength' = l
          /\ pc' = "fetch"
          /\ UNCHANGED response
    /\ UNCHANGED << gpxData, points, synthesisVars, first, clock, unit, globalRand, runs, throttleVars, pageVars >>

BindRequest == BindRequestFrom(RouteLengths)

\* Lines 190-194; the provider answers with one of docs, or the call fails.
FetchRouteFrom(docs) ==
    /\ pc = "fetch"
    /\ \/ /\ response' = errorResponse(500, "An error occurred while fetching GPX data")
          /\ pc' = "done"
          /\ UNCHANGED gpxData
       \/ /\ \E doc \in docs : gpxData' = doc
          /\ pc' = "parse"
          /\ UNCHANGED response
    /\ UNCHANGED << routeLength, points, synthesisVars, first, clock, unit, globalRand, runs, throttleVars, pageVars >>

FetchRoute == FetchRouteFrom(GpxDocuments)

\* Lines 197-201.
ParseRoute ==
    /\ pc = "parse"
    /\ LET parsed == parseGPX(gpxData)
       IN  IF parsed.err
           THEN /\ response' = errorResponse(500, "An error occurred while parsing GPX data")
                /\ pc' = "done"
                /\ UNCHANGED points
           ELSE /\ points' = parsed.points
                /\ pc' = "check"
                /\ UNCHANGED response
    /\ UNCHANGED << routeLength, gpxData, synthesisVars, first, clock, unit, globalRand, runs, throttleVars, pageVars >>

\* CheckPoints without the return of line 205: the error is written and the
\* handler goes on.
CheckPointsNoReturn ==
    /\ pc = "check"
    /\ IF Len(points) = 0
       THEN response' = errorResponse(500, "No track points found in the route.")
       ELSE UNCHANGED response
    /\ pc' = "speed"
    /\ UNCHANGED << routeLength, gpxData, points, synthesisVars, first, clock, unit, globalRand, runs, throttleVars, pageVars >>

\* Lines 203-206.
CheckPoints ==
    /\ pc = "check"
    /\ IF Len(points) = 0
       THEN /\ response' = errorResponse(500, "No track points found in the route.")
            /\ pc' = "done"
       ELSE /\ pc' = "speed"
            /\ UNCHANGED response
    /\ UNCHANGED << routeLength, gpxData, points, synthesisVars, first, clock, unit, globalRand, runs, throttleVars, pageVars >>

\* gin.Recovery answers a panic of the handler with an empty 500.
Panic ==
    /\ pc' = "panicked"
    /\ response' = errorResponse(500, "")

\* Lines 207-215.
SpeedStep ==
    /\ pc = "speed"
    /\ totalTimeSeconds' = horizon(routeLength)
    /\ IF createSpeedProfilePanics(totalTimeSeconds')
       THEN /\ Panic
            /\ UNCHANGED << speedProfile, built, drawn >>
       ELSE /\ \E noise \in NoiseSeqs(totalTimeSeconds') :
                 /\ speedProfile' = createSpeedProfile(totalTimeSeconds', AvgSpeed,
                                                       SpeedDecrease, noise)
                 /\ drawn' = drawn \o noise
            /\ built' = built \cup {"speed"}
            /\ pc' = "elevation"
            /\ UNCHANGED response
    /\ UNCHANGED << routeLength, gpxData, points, elevationChanges,
                    bpmProfileFloat, cadenceProfile, interpolatedPoints,
                    currentTime, segIndex, timestamps, first, clock, unit, globalRand, runs, throttleVars, pageVars >>

\* Lines 217-238.
ElevationStep ==
    /\ pc = "elevation"
    /\ elevationChanges' = padElevation(extractElevation(points, 1), totalTimeSeconds)
    /\ built' = built \cup {"elevation"}
    /\ pc' = "bpm"
    /\ UNCHANGED << routeLength, gpxData, points, totalTimeSeconds, speedProfile,
                    bpmProfileFloat, cadenceProfile, interpolatedPoints,
                    currentTime, segIndex, timestamps, response, drawn, first, clock, unit, globalRand, runs, throttleVars, pageVars >>

\* Lines 240-241.
BPMStep ==
    /\ pc = "bpm"
    /\ totalTimeSeconds' = totalTimeSeconds - 2
    /\ IF profilePanics(totalTimeSeconds', speedProfile)
       THEN /\ Panic
            /\ UNCHANGED << bpmProfileFloat, built, drawn >>
       ELSE /\ \E jitter \in JitterSeqsFrom1(totalTimeSeconds') :
                 /\ bpmProfileFloat' = createBPMProfile(totalTimeSeconds', AvgBPM,
                                           AvgSpeed, speedProfile, elevationChanges, jitter)
                 /\ drawn' = drawn \o jitter
            /\ built' = built \cup {"bpm"}
            /\ pc' = "cadence"
            /\ UNCHANGED response
    /\ UNCHANGED << routeLength, gpxData, points, speedProfile, elevationChanges,
                    cadenceProfile, interpolatedPoints, currentTime, segIndex,
                    timestamps, first, clock, unit, globalRand, runs, throttleVars, pageVars >>

\* Line 242.
CadenceStep ==
    /\ pc = "cadence"
    /\ IF profilePanics(totalTimeSeconds, speedProfile)
       THEN /\ Panic
            /\ UNCHANGED << cadenceProfile, built, drawn >>
       ELSE /\ \E jitter \in JitterSeqs(totalTimeSeconds) :
                 /\ cadenceProfile' = createCadenceProfile(totalTimeSeconds, AvgCadence,
                                          AvgSpeed, speedProfile, elevationChanges, jitter)
                 /\ drawn' = drawn \o jitter
            /\ built' = built \cup {"cadence"}
            /\ pc' = "interpolate"
            /\ UNCHANGED response
    /\ UNCHANGED << routeLength, gpxData, points, totalTimeSeconds, speedProfile,
                    elevationChanges, bpmProfileFloat, interpolatedPoints,
                    currentTime, segIndex, timestamps, first, clock, unit, globalRand, runs, throttleVars, pageVars >>

\* The loop without lines 260-262: it goes on to the last waypoint pair.
loopNeverBreaks(time, total) == FALSE

\* Lines 260-262: the loop is left once elapsed time reaches totalTimeSeconds.
loopBreaks(time, total) == time >= total

\* Lines 247-263: one turn of the loop over the waypoint pairs.  Reading
\* speedProfile[currentTime] at line 254 panics past the profile's end.
InterpolateSegment ==
    /\ pc = "interpolate"
    /\ segIndex < Len(points) - 1
    /\ LET p1 == points[segIndex + 1]
           p2 == points[segIndex + 2]
       IN  /\ interpolatedPoints' = interpolatedPoints \o
                   interpolatePoints(p1, p2, speedProfile, totalTimeSeconds, currentTime)
           /\ IF currentTime >= Len(speedProfile)
              THEN /\ Panic
                   /\ UNCHANGED << currentTime, segIndex >>
              ELSE /\ currentTime' = currentTime
                                     + segmentDuration(p1, p2, speedProfile, currentTime)
                   /\ IF loopBreaks(currentTime', totalTimeSeconds)
                      THEN /\ pc' = "reconcile"
                           /\ UNCHANGED segIndex
                      ELSE /\ pc' = "interpolate"
                           /\ segIndex' = segIndex + 1
                   /\ UNCHANGED response
    /\ built' = built \cup {"route"}
    /\ UNCHANGED << routeLength, gpxData, points, totalTimeSeconds, speedProfile,
                    elevationChanges, bpmProfileFloat, cadenceProfile,
                    timestamps, drawn, first, clock, unit, globalRand, runs, throttleVars, pageVars >>

\* The loop condition i < len(points)-1 fails.
InterpolateDone ==
    /\ pc = "interpolate"
    /\ segIndex >= Len(points) - 1
    /\ pc' = "reconcile"
    /\ built' = built \cup {"route"}
    /\ UNCHANGED << routeLength, gpxData, points, totalTimeSeconds, speedProfile,
                    elevationChanges, bpmProfileFloat, cadenceProfile,
                    interpolatedPoints, currentTime, segIndex, timestamps,
                    response, drawn, first, clock, unit, globalRand, runs, throttleVars, pageVars >>

\* Lines 265-286.
Reconcile ==
    /\ pc = "reconcile"
    /\ bpmProfileFloat' = reconcile(bpmProfileFloat, Len(interpolatedPoints))
    /\ cadenceProfile' = reconcile(cadenceProfile, Len(interpolatedPoints))
    /\ built' = built \cup {"reconciled"}
    /\ pc' = "timestamps"
    /\ UNCHANGED << routeLength, gpxData, points, totalTimeSeconds, speedProfile,
                    elevationChanges, interpolatedPoints, currentTime, segIndex,
                    timestamps, response, drawn, first, clock, unit, globalRand, runs, throttleVars, pageVars >>

\* Lines 288-294: startTime is time.Now(), in seconds; the clock does not
\* run backwards.
Timestamps ==
    /\ pc = "timestamps"
    /\ \E now \in clock..MaxClock :
          /\ clock' = now
          /\ timestamps' = generateTimestamps(Len(interpolatedPoints), 1, now)
    /\ built' = built \cup {"timestamps"}
    /\ IF Len(timestamps') # Len(interpolatedPoints)
       THEN /\ response' = errorResponse(500, "Mismatch between number of timestamps and interpolated points.")
            /\ pc' = "done"
       ELSE /\ pc' = "assemble"
            /\ UNCHANGED response
    /\ UNCHANGED << routeLength, gpxData, points, totalTimeSeconds, speedProfile,
                    elevationChanges, bpmProfileFloat, cadenceProfile,
                    interpolatedPoints, currentTime, segIndex, drawn, first, unit, globalRand, runs, throttleVars, pageVars >>

\* Lines 296-332.
Assemble ==
    /\ pc = "assemble"
    /\ LET totalInterpolated == Len(interpolatedPoints)
       IN  /\ speedProfile' = IF Len(speedProfile) > totalInterpolated
                              THEN SubSeq(speedProfile, 1, totalInterpolated)
                              ELSE speedProfile
           /\ response' = [status |-> 200, error |-> "",
                           record |-> << [timestamps |-> timestamps,
                                          bpmProfile |-> bpmInts(bpmProfileFloat),
                                          paceProfile |-> paceProfileOf(speedProfile, totalInterpolated),
                                          route |-> routeOf(interpolatedPoints)] >>]
    /\ built' = built \cup {"bpmProfile", "paceProfile", "routeArray"}
    /\ pc' = "done"
    /\ UNCHANGED << routeLength, gpxData, points, totalTimeSeconds,
                    elevationChanges, bpmProfileFloat, cadenceProfile,
                    interpolatedPoints, currentTime, segIndex, timestamps, drawn,
                    first, clock, unit, globalRand, runs, throttleVars, pageVars >>

Next ==
    \/ BindRequest
    \/ FetchRoute
    \/ ParseRoute
    \/ CheckPoints
    \/ SpeedStep
    \/ ElevationStep
    \/ BPMStep
    \/ CadenceStep
    \/ InterpolateSegment
    \/ InterpolateDone
    \/ Reconcile
    \/ Timestamps
    \/ Assemble

Spec == Init /\ [][Next]_vars

----------------------------------------------------------------------------
(* Two requests served one after the other by the same process *)

\* The smallest route length the handler serves without a panic.
TwoRunLengths == { 5 }

TwoRunDocuments ==
    { [wellFormed |-> TRUE, rtepts |-> l] :
      l \in { << Rtept(0, 0), Rtept(1000, 0) >>,
              << Rtept(0, 0), Rtept(4000, 2000) >>,
              << Rtept(0, 0), Rtept(12000, 0) >> } }

\* The response is sent and the router calls the handler for the next request.
NextRequest ==
    /\ pc \in {"done", "panicked"}
    /\ ~ first.served
    /\ first' = [served |-> TRUE, routeLength |-> routeLength, gpxData |-> gpxData,
                 drawn |-> drawn, response |-> response]
    /\ pc' = "bind"
    /\ routeLength' = 0
    /\ gpxData' = NoDocument
    /\ points' = << >>
    /\ totalTimeSeconds' = 0
    /\ speedProfile' = << >>
    /\ elevationChanges' = << >>
    /\ bpmProfileFloat' = << >>
    /\ cadenceProfile' = << >>
    /\ interpolatedPoints' = << >>
    /\ currentTime' = 0
    /\ segIndex' = 0
    /\ timestamps' = << >>
    /\ response' = NoResponse
    /\ built' = {}
    /\ drawn' = << >>
    /\ UNCHANGED << clock, unit, globalRand, runs, throttleVars, pageVars >>

TwoRunNext ==
    \/ BindRequestFrom(TwoRunLengths)
    \/ FetchRouteFrom(TwoRunDocuments)
    \/ ParseRoute
    \/ CheckPoints
    \/ SpeedStep
    \/ ElevationStep
    \/ BPMStep
    \/ CadenceStep
    \/ InterpolateSegment
    \/ InterpolateDone
    \/ Reconcile
    \/ Timestamps
    \/ Assemble
    \/ NextRequest

TwoRunSpec == Init /\ [][TwoRunNext]_vars

----------------------------------------------------------------------------
(* The pure functions on their own: the initial state draws a function and *)
(* its arguments, the action applies it.                                   *)

\* Target averages: the handler's (lines 207-209, 215) and others.
UnitConfigs ==
    { [avgSpeed |-> AvgSpeed, avgBPM |-> AvgBPM, avgCadence |-> AvgCadence],
      [avgSpeed |-> 0, avgBPM |-> 70000, avgCadence |-> 30000],
      [avgSpeed |-> 3000, avgBPM |-> 230000, avgCadence |-> 150000] }

UnitAvgSpeeds == { -1000, 0, AvgSpeed, 3000 }

UnitDecreases == { 0, SpeedDecrease, 5000 }

UnitSpeeds == { 1500, 30000 }

UnitElevations == { -20000, 0, 20000 }

UnitPaceSpeeds == { -500, 0, 1350, 1500 }

UnitNoiseDraws == { -1800, 0, 1800 }

UnitNoiseSeqs(n) == { d \in [1..n -> UnitNoiseDraws] : d[1] = 0 }

UnitLengths == 1..MaxUnitSeconds

SpeedProfileInputs ==
    { [fn |-> "createSpeedProfile", applied |-> FALSE, out |-> << >>,
       totalSeconds |-> n, avgSpeed |-> a, speedDecrease |-> d] :
      n \in UnitLengths, a \in UnitAvgSpeeds, d \in UnitDecreases }

ProfileInputs(name) ==
    UNION { { [fn |-> name, applied |-> FALSE, out |-> << >>,
               totalSeconds |-> n, cfg |-> c, speed |-> sp, elevation |-> el] :
              c \in UnitConfigs, sp \in [1..n -> UnitSpeeds],
              el \in [1..n -> UnitElevations] } : n \in UnitLengths }

PaceInputs ==
    UNION { { [fn |-> "paceProfile", applied |-> FALSE, out |-> << >>,
               speed |-> sp, total |-> k] :
              sp \in [1..n -> UnitPaceSpeeds], k \in 0..(MaxUnitSeconds + 1) } :
            n \in 0..MaxUnitSeconds }

TimestampInputs ==
    { [fn |-> "generateTimestamps", applied |-> FALSE, out |-> << >>,
       numPoints |-> n, intervalSeconds |-> iv, startTime |-> st] :
      n \in 0..(MaxUnitSeconds + 1), iv \in 1..MaxInterval, st \in 0..MaxClock }

\* Waypoints on one meridian: 1 m, 12 m and 0.01 degrees of arc (1111.95 m)
\* from the origin, at elevations that are representable values, two of
\* them with a difference that is not.
UnitPoints ==
    { [lat |-> la, lon |-> 0, ele |-> el] :
      la \in { 0, 1000, 12000, 1111950 }, el \in { -3, 0, 5000, 8194 } }

\* The speed profiles the handler builds at line 215.
HandlerSpeedProfiles ==
    UNION { { createSpeedProfile(n, AvgSpeed, SpeedDecrease, noise) :
              noise \in NoiseSeqs(n) } : n \in UnitLengths }

\* The speed profiles interpolatePoints is applied to: the handler's, a slow
\* one and a fast one.  Every speed is positive.
UnitSpeedProfiles == HandlerSpeedProfiles \cup { << 500 >>, << 30000, 2000 >> }

InterpolateInputs ==
    { [fn |-> "interpolatePoints", applied |-> FALSE, out |-> << >>,
       p1 |-> a, p2 |-> b, speedProfile |-> sp, currentTime |-> t] :
      a \in UnitPoints, b \in UnitPoints, sp \in UnitSpeedProfiles,
      t \in 0..MaxUnitSeconds }

\* Waypoint lists of up to three points for the loop of lines 219-230.
UnitWaypointLists == UNION { [1..n -> UnitPoints] : n \in 0..3 }

ElevationInputs ==
    { [fn |-> "elevationChanges", applied |-> FALSE, out |-> << >>, points |-> l] :
      l \in UnitWaypointLists }

UnitInputs ==
    ElevationInputs \cup SpeedProfileInputs \cup ProfileInputs("createBPMProfile")
    \cup ProfileInputs("createCadenceProfile") \cup PaceInputs \cup TimestampInputs
    \cup InterpolateInputs

UnitInit ==
    /\ pc = "unit"
    /\ routeLength = 0
    /\ gpxData = NoDocument
    /\ points = << >>
    /\ totalTimeSeconds = 0
    /\ speedProfile = << >>
    /\ elevationChanges = << >>
    /\ bpmProfileFloat = << >>
    /\ cadenceProfile = << >>
    /\ interpolatedPoints = << >>
    /\ currentTime = 0
    /\ segIndex = 0
    /\ timestamps = << >>
    /\ response = NoResponse
    /\ built = {}
    /\ drawn = << >>
    /\ first = NoRun
    /\ clock = 0
    /\ unit \in UnitInputs
    /\ globalRand = NoSource
    /\ runs = NoRuns
    /\ ThrottleIdle
    /\ PageIdle

handlerVars == << pc, routeLength, gpxData, points, synthesisVars, response, first,
                 clock, globalRand, runs, throttleVars, pageVars >>

ApplySpeedProfile ==
    /\ unit.fn = "createSpeedProfile" /\ ~ unit.applied
    /\ \E noise \in UnitNoiseSeqs(unit.totalSeconds) :
          unit' = [unit EXCEPT !.applied = TRUE,
                     !.out = createSpeedProfile(unit.totalSeconds, unit.avgSpeed,
                                                unit.speedDecrease, noise)]
    /\ UNCHANGED handlerVars

ApplyBPMProfile ==
    /\ unit.fn = "createBPMProfile" /\ ~ unit.applied
    /\ \E jitter \in JitterSeqsFrom1(unit.totalSeconds) :
          unit' = [unit EXCEPT !.applied = TRUE,
                     !.out = createBPMProfile(unit.totalSeconds, unit.cfg.avgBPM,
                                 unit.cfg.avgSpeed, unit.speed, unit.elevation, jitter)]
    /\ UNCHANGED handlerVars

ApplyCadenceProfile ==
    /\ unit.fn = "createCadenceProfile" /\ ~ unit.applied
    /\ \E jitter \in JitterSeqs(unit.totalSeconds) :
          unit' = [unit EXCEPT !.applied = TRUE,
                     !.out = createCadenceProfile(unit.totalSeconds, unit.cfg.avgCadence,
                                 unit.cfg.avgSpeed, unit.speed, unit.elevation, jitter)]
    /\ UNCHANGED handlerVars

ApplyPaceProfile ==
    /\ unit.fn = "paceProfile" /\ ~ unit.applied
    /\ unit' = [unit EXCEPT !.applied = TRUE,
                  !.out = paceProfileOf(unit.speed, unit.total)]
    /\ UNCHANGED handlerVars

ApplyTimestamps ==
    /\ unit.fn = "generateTimestamps" /\ ~ unit.applied
    /\ unit' = [unit EXCEPT !.applied = TRUE,
                  !.out = generateTimestamps(unit.numPoints, unit.intervalSeconds,
                                             unit.startTime)]
    /\ UNCHANGED handlerVars

ApplyInterpolatePoints ==
    /\ unit.fn = "interpolatePoints" /\ ~ unit.applied
    /\ unit' = [unit EXCEPT !.applied = TRUE,
                  !.out = interpolatePoints(unit.p1, unit.p2, unit.speedProfile,
                                            Len(unit.speedProfile), unit.currentTime)]
    /\ UNCHANGED handlerVars

\* Lines 218-230: the series before it is padded or cut.
ApplyElevationChanges ==
    /\ unit.fn = "elevationChanges" /\ ~ unit.applied
    /\ unit' = [unit EXCEPT !.applied = TRUE,
                  !.out = extractElevation(unit.points, 1)]
    /\ UNCHANGED handlerVars

UnitNext ==
    \/ ApplyElevationChanges
    \/ ApplyInterpolatePoints
    \/ ApplySpeedProfile
    \/ ApplyBPMProfile
    \/ ApplyCadenceProfile
    \/ ApplyPaceProfile
    \/ ApplyTimestamps

UnitSpec == UnitInit /\ [][UnitNext]_vars

----------------------------------------------------------------------------
(* Two requests handled at the same time.  gin serves each request on its  *)
(* own goroutine; the rand functions the generators call are the package's *)
(* top-level ones, which draw from one locked process-wide source.         *)
(* globalRand.outputs are the values that source gives in order, fixed by  *)
(* its seed, and globalRand.next is the position of the next one: a call   *)
(* takes the lock, reads the value and advances the position.  A run is    *)
(* followed through the draws of its speed profile (lines 397-399), from   *)
(* which the pace series of its record is computed.                        *)

Requests == { "A", "B" }

\* Both requests ask for 5 m: a horizon of 3 seconds.
ConcHorizon == horizon(5)

SourceOutputs == [1..(2 * ConcHorizon) -> NoiseDraws]

IdleRun == [pc |-> "idle", noise |-> << >>, speedProfile |-> << >>]

ConcInit ==
    /\ pc = "conc"
    /\ routeLength = 0
    /\ gpxData = NoDocument
    /\ points = << >>
    /\ totalTimeSeconds = 0
    /\ speedProfile = << >>
    /\ elevationChanges = << >>
    /\ bpmProfileFloat = << >>
    /\ cadenceProfile = << >>
    /\ interpolatedPoints = << >>
    /\ currentTime = 0
    /\ segIndex = 0
    /\ timestamps = << >>
    /\ response = NoResponse
    /\ built = {}
    /\ drawn = << >>
    /\ first = NoRun
    /\ clock = 0
    /\ unit = NoUnit
    /\ \E outputs \in SourceOutputs : globalRand = [outputs |-> outputs, next |-> 1]
    /\ runs = [r \in Requests |-> IdleRun]
    /\ ThrottleIdle
    /\ PageIdle

concVars == << pc, routeLength, gpxData, points, synthesisVars, response, first,
              clock, unit, throttleVars, pageVars >>

\* The router starts the handler of request r; it reaches line 215.
RunStart(r) ==
    /\ runs[r].pc = "idle"
    /\ runs' = [runs EXCEPT ![r].pc = "drawing"]
    /\ UNCHANGED << globalRand, concVars >>

\* One pass of the loop of lines 397-399: rand.NormFloat64() on the shared
\* source.
RunDraw(r) ==
    /\ runs[r].pc = "drawing"
    /\ Len(runs[r].noise) < ConcHorizon
    /\ runs' = [runs EXCEPT ![r].noise = Append(@, globalRand.outputs[globalRand.next])]
    /\ globalRand' = [globalRand EXCEPT !.next = @ + 1]
    /\ UNCHANGED concVars

\* Lines 400-420: the rest of createSpeedProfile, on the run's own slices.
RunProfile(r) ==
    /\ runs[r].pc = "drawing"
    /\ Len(runs[r].noise) = ConcHorizon
    /\ runs' = [runs EXCEPT ![r].pc = "done",
                            ![r].speedProfile = createSpeedProfile(ConcHorizon, AvgSpeed,
                                                    SpeedDecrease, runs[r].noise)]
    /\ UNCHANGED << globalRand, concVars >>

ConcNext ==
    \E r \in Requests : RunStart(r) \/ RunDraw(r) \/ RunProfile(r)

ConcSpec == ConcInit /\ [][ConcNext]_vars

----------------------------------------------------------------------------
(* The throttle: Handler.Middleware and Handler.resetClientCounter.  Every *)
(* call of the middleware runs on the goroutine of its request, every      *)
(* reset on a goroutine of its own; they meet at Handler.mu.  Time is      *)
(* counted in ticks of two and a half minutes.                             *)

CLIENT_USE_THRESHOLD == 5

\* Five minutes, in ticks.
CLIENT_USE_RESET_TIME == 2

Clients == { "10.0.0.1", "10.0.0.2" }

\* The requests that can be inside the middleware at the same time.
Callers == { 1, 2 }

\* What reading an absent key of client_counter gives.
NoClientInfo == [exists |-> FALSE, Count |-> 0, LastSeen |-> 0]

IdleCall == [pc |-> "idle", clientIP |-> ""]

\* The test of line 126 with > for >=.
throttledAbove(clientInfo) == clientInfo.Count > CLIENT_USE_THRESHOLD

\* Line 126.
throttled(clientInfo) == clientInfo.Count >= CLIENT_USE_THRESHOLD

\* Line 122: the key of the counter is the request's client IP.
keyOfAnyClient(clientIP) == "10.0.0.1"

keyOf(clientIP) == clientIP

\* The middleware's section with lines 131-133 run for a throttled client
\* too: the rejected request is counted and seen.
middlewareCountsRejected(counter, clientIP, t) ==
    LET clientInfo == counter[clientIP]
    IN  IF clientInfo.exists
        THEN [counter |-> [counter EXCEPT ![clientIP].Count = clientInfo.Count + 1,
                                          ![clientIP].LastSeen = t],
              passed  |-> ~ throttled(clientInfo),
              spawned |-> FALSE]
        ELSE [counter |-> [counter EXCEPT
                              ![clientIP] = [exists |-> TRUE, Count |-> 1, LastSeen |-> t]],
              passed  |-> TRUE,
              spawned |-> TRUE]

\* Lines 124-137, between Lock and Unlock, at time t: the map afterwards,
\* whether the request is passed on to c.Next(), and whether a reset
\* goroutine is started.
middleware(counter, clientIP, t) ==
    LET clientInfo == counter[clientIP]
    IN  IF clientInfo.exists
        THEN IF throttled(clientInfo)
             THEN [counter |-> counter, passed |-> FALSE, spawned |-> FALSE]
             ELSE [counter |-> [counter EXCEPT ![clientIP].Count = clientInfo.Count + 1,
                                               ![clientIP].LastSeen = t],
                   passed  |-> TRUE,
                   spawned |-> FALSE]
        ELSE [counter |-> [counter EXCEPT
                              ![clientIP] = [exists |-> TRUE, Count |-> 1, LastSeen |-> t]],
              passed  |-> TRUE,
              spawned |-> TRUE]

\* Lines 147-155 at time t.
resetClientCounter(counter, clientIP, t) ==
    LET clientInfo == counter[clientIP]
    IN  IF clientInfo.exists
        THEN IF t - clientInfo.LastSeen >= CLIENT_USE_RESET_TIME
             THEN [counter EXCEPT ![clientIP] = NoClientInfo]
             ELSE [counter EXCEPT ![clientIP].Count = 0]
        ELSE counter

ThrottleInit ==
    /\ pc = "throttle"
    /\ routeLength = 0
    /\ gpxData = NoDocument
    /\ points = << >>
    /\ totalTimeSeconds = 0
    /\ speedProfile = << >>
    /\ elevationChanges = << >>
    /\ bpmProfileFloat = << >>
    /\ cadenceProfile = << >>
    /\ interpolatedPoints = << >>
    /\ currentTime = 0
    /\ segIndex = 0
    /\ timestamps = << >>
    /\ response = NoResponse
    /\ built = {}
    /\ drawn = << >>
    /\ first = NoRun
    /\ clock = 0
    /\ unit = NoUnit
    /\ globalRand = NoSource
    /\ runs = NoRuns
    /\ client_counter = [ip \in Clients |-> NoClientInfo]
    /\ mu = "free"
    /\ calls = [c \in Callers |-> IdleCall]
    /\ resetters = {}
    /\ ticks = 0
    /\ admitted = [ip \in Clients |-> 0]
    /\ PageIdle

notThrottleVars == << pc, routeLength, gpxData, points, synthesisVars, response, first,
                     clock, unit, globalRand, runs, pageVars >>

\* A request of clientIP reaches the middleware (lines 121-122) and asks for
\* the lock.
Arrive(c, clientIP) ==
    /\ calls[c].pc \in { "idle", "next", "aborted" }
    /\ calls' = [calls EXCEPT ![c] = [pc |-> "lock", clientIP |-> clientIP]]
    /\ UNCHANGED << client_counter, mu, resetters, ticks, admitted, notThrottleVars >>

\* Line 123.
CallLock(c) ==
    /\ calls[c].pc = "lock"
    /\ mu = "free"
    /\ mu' = "held"
    /\ calls' = [calls EXCEPT ![c].pc = "section"]
    /\ UNCHANGED << client_counter, resetters, ticks, admitted, notThrottleVars >>

\* Lines 124-139: the section, the unlock, and c.Next() or the 429.
CallSection(c) ==
    /\ calls[c].pc = "section"
    /\ LET clientIP == keyOf(calls[c].clientIP)
           after == middleware(client_counter, clientIP, ticks)
       IN  /\ client_counter' = after.counter
           /\ resetters' = IF after.spawned
                            THEN resetters \cup { [clientIP |-> clientIP,
                                                   wake |-> ticks + CLIENT_USE_RESET_TIME,
                                                   pc |-> "sleep"] }
                            ELSE resetters
           /\ calls' = [calls EXCEPT ![c].pc = IF after.passed THEN "next" ELSE "aborted"]
           /\ admitted' = IF after.passed
                           THEN [admitted EXCEPT ![clientIP] = @ + 1]
                           ELSE admitted
    /\ mu' = "free"
    /\ UNCHANGED << ticks, notThrottleVars >>

\* Time passes.
Tick ==
    /\ pc = "throttle"
    /\ ticks < MaxTicks
    /\ ticks' = ticks + 1
    /\ UNCHANGED << client_counter, mu, calls, resetters, admitted, notThrottleVars >>

\* Line 144: time.Sleep returns, not before the reset time has passed, and
\* the goroutine asks for the lock.
ResetWake(g) ==
    /\ g.pc = "sleep"
    /\ ticks >= g.wake
    /\ resetters' = (resetters \ { g }) \cup { [g EXCEPT !.pc = "lock"] }
    /\ UNCHANGED << client_counter, mu, calls, ticks, admitted, notThrottleVars >>

\* Line 145.
ResetLock(g) ==
    /\ g.pc = "lock"
    /\ mu = "free"
    /\ mu' = "held"
    /\ resetters' = (resetters \ { g }) \cup { [g EXCEPT !.pc = "section"] }
    /\ UNCHANGED << client_counter, calls, ticks, admitted, notThrottleVars >>

\* Lines 146-156: the section and the deferred unlock; the goroutine ends.
ResetSection(g) ==
    /\ g.pc = "section"
    /\ client_counter' = resetClientCounter(client_counter, keyOf(g.clientIP), ticks)
    /\ admitted' = IF client_counter[keyOf(g.clientIP)].exists
                    THEN [admitted EXCEPT ![keyOf(g.clientIP)] = 0]
                    ELSE admitted
    /\ mu' = "free"
    /\ resetters' = resetters \ { g }
    /\ UNCHANGED << calls, ticks, notThrottleVars >>

ThrottleNext ==
    \/ \E c \in Callers : \E clientIP \in Clients : Arrive(c, clientIP)
    \/ \E c \in Callers : CallLock(c)
    \/ \E c \in Callers : CallSection(c)
    \/ Tick
    \/ \E g \in resetters : ResetWake(g)
    \/ \E g \in resetters : ResetLock(g)
    \/ \E g \in resetters : ResetSection(g)

ThrottleSpec == ThrottleInit /\ [][ThrottleNext]_vars

----------------------------------------------------------------------------
(* The page in the browser: MainPage with its MapComponent, and the        *)
(* ShiftingTitle of the RouteAnalysisPopup, which is mounted while the     *)
(* popup is rendered.  Every handler runs to its end on the one JavaScript *)
(* thread; a fetch or a request in flight settles in a later task.         *)

\* The titles RouteAnalysisPopup passes are six; shorter lists as well.
TitleCounts == { 1, 2, 6 }

\* How a reverse-geocoding fetch settles: with a display_name, with JSON
\* that has none, or rejected.
LookupOutcomes == { "named", "unnamed", "rejected" }

\* Lines 160 and 170 of StaticMap.tsx.
addressOf(outcome) == IF outcome = "named" THEN "display_name" ELSE "Unknown location"

\* setMarkers([...markers, marker]) with the markers of the render in which
\* the click handler was registered, the first one.
appendToMountedMarkers(prevMarkers, marker) == << marker >>

\* The updater of lines 161-164 and 168-171.
appendMarker(prevMarkers, marker) == Append(prevMarkers, marker)

\* handleProcessRouteSingle with setShowPopup(true) after the try block:
\* the popup is asked for after a failure too.
settleShowingPopup(ok, data, oldData, oldShow) ==
    IF ok THEN [processedData |-> data, showPopup |-> TRUE]
    ELSE [processedData |-> oldData, showPopup |-> TRUE]

\* Lines 55-64 of MainPage once the request has settled.
settle(ok, data, oldData, oldShow) ==
    IF ok THEN [processedData |-> data, showPopup |-> TRUE]
    ELSE [processedData |-> oldData, showPopup |-> oldShow]

\* The updater of line 16 of ShiftingTitle without the modulo.
nextIndexNoWrap(prevIndex, length) == prevIndex + 1

\* Line 16 of ShiftingTitle.
nextIndex(prevIndex, length) == (prevIndex + 1) % length

\* Line 114 of MainPage.
popupRendered == processedData # 0 /\ showPopup

AllTimers == { "fadeOut", "changeTitle" }

PageInit ==
    /\ pc = "page"
    /\ routeLength = 0
    /\ gpxData = NoDocument
    /\ points = << >>
    /\ totalTimeSeconds = 0
    /\ speedProfile = << >>
    /\ elevationChanges = << >>
    /\ bpmProfileFloat = << >>
    /\ cadenceProfile = << >>
    /\ interpolatedPoints = << >>
    /\ currentTime = 0
    /\ segIndex = 0
    /\ timestamps = << >>
    /\ response = NoResponse
    /\ built = {}
    /\ drawn = << >>
    /\ first = NoRun
    /\ clock = 0
    /\ unit = NoUnit
    /\ globalRand = NoSource
    /\ runs = NoRuns
    /\ ThrottleIdle
    /\ markers = << >>
    /\ lookups = {}
    /\ clicks = 0
    /\ appended = [k \in 1..MaxClicks |-> 0]
    /\ cleared = {}
    /\ processedData = 0
    /\ showPopup = FALSE
    /\ requests = {}
    /\ sent = 0
    /\ successes = 0
    /\ event = "none"
    /\ titlesLength \in TitleCounts
    /\ currentIndex = 0
    /\ fade = TRUE
    /\ timers = {}

notPageVars == << pc, routeLength, gpxData, points, synthesisVars, response, first,
                 clock, unit, globalRand, runs, throttleVars >>

mapVars == << markers, lookups, clicks, appended, cleared >>

mainVars == << processedData, showPopup, requests, sent, successes >>

titleVars == << currentIndex, fade, timers >>

\* StaticMap.tsx lines 153-157: a click on the map starts a fetch.
MapClick ==
    /\ pc = "page"
    /\ clicks < MaxClicks
    /\ clicks' = clicks + 1
    /\ lookups' = lookups \cup { clicks + 1 }
    /\ event' = "singleclick"
    /\ UNCHANGED << markers, appended, cleared, mainVars, titleVars, titlesLength,
                    notPageVars >>

\* StaticMap.tsx lines 158-172: the fetch of click k settles and one of the
\* two callbacks calls setMarkers.
LookupSettles(k, outcome) ==
    /\ k \in lookups
    /\ markers' = appendMarker(markers, [click |-> k, address |-> addressOf(outcome)])
    /\ lookups' = lookups \ { k }
    /\ appended' = [appended EXCEPT ![k] = @ + 1]
    /\ event' = "lookup"
    /\ UNCHANGED << clicks, cleared, mainVars, titleVars, titlesLength, notPageVars >>

\* StaticMap.tsx lines 279-283.
handleClearMarkers ==
    /\ pc = "page"
    /\ markers # << >>
    /\ markers' = << >>
    /\ cleared' = cleared \cup { markers[i].click : i \in 1..Len(markers) }
    /\ event' = "clear"
    /\ UNCHANGED << lookups, clicks, appended, mainVars, titleVars, titlesLength,
                    notPageVars >>

\* MainPage lines 48-55: the button, up to the await.
handleProcessRouteSingle ==
    /\ pc = "page"
    /\ IF Len(markers) < 1
       THEN /\ event' = "noMarker"
            /\ UNCHANGED << requests, sent >>
       ELSE /\ sent < MaxRequests
            /\ sent' = sent + 1
            /\ requests' = requests \cup { sent + 1 }
            /\ event' = "requested"
    /\ UNCHANGED << processedData, showPopup, successes, mapVars, titleVars,
                    titlesLength, notPageVars >>

\* MainPage lines 55-64: request r settles and the handler goes on.  The
\* popup, when this renders it, mounts a ShiftingTitle, whose effect (lines
\* 13-24) sets the two timeouts.
RequestSettles(r, ok) ==
    /\ r \in requests
    /\ requests' = requests \ { r }
    /\ LET after == settle(ok, r, processedData, showPopup)
       IN  /\ processedData' = after.processedData
           /\ showPopup' = after.showPopup
    /\ successes' = IF ok THEN successes + 1 ELSE successes
    /\ event' = IF ok THEN "succeeded" ELSE "failed"
    /\ IF ~ popupRendered /\ popupRendered'
       THEN /\ currentIndex' = 0
            /\ fade' = TRUE
            /\ timers' = AllTimers
       ELSE UNCHANGED titleVars
    /\ UNCHANGED << sent, mapVars, titlesLength, notPageVars >>

\* MainPage line 115: closePopup.  The popup goes and the ShiftingTitle's
\* cleanup (lines 20-23) clears its timeouts.
closePopup ==
    /\ popupRendered
    /\ showPopup' = FALSE
    /\ currentIndex' = 0
    /\ fade' = TRUE
    /\ timers' = {}
    /\ event' = "closed"
    /\ UNCHANGED << processedData, requests, sent, successes, mapVars, titlesLength,
                    notPageVars >>

\* ShiftingTitle line 14: due a second before the change.
fadeOutTimeout ==
    /\ "fadeOut" \in timers
    /\ fade' = FALSE
    /\ timers' = timers \ { "fadeOut" }
    /\ event' = "fadeOut"
    /\ UNCHANGED << currentIndex, mainVars, mapVars, titlesLength, notPageVars >>

\* ShiftingTitle lines 15-18, and the effect run again when currentIndex
\* has changed (line 24).
changeTitleTimeout ==
    /\ "changeTitle" \in timers
    /\ "fadeOut" \notin timers
    /\ currentIndex' = nextIndex(currentIndex, titlesLength)
    /\ fade' = TRUE
    /\ timers' = IF currentIndex' # currentIndex THEN AllTimers ELSE {}
    /\ event' = "changeTitle"
    /\ UNCHANGED << mainVars, mapVars, titlesLength, notPageVars >>

PageNext ==
    \/ MapClick
    \/ \E k \in lookups : \E outcome \in LookupOutcomes : LookupSettles(k, outcome)
    \/ handleClearMarkers
    \/ handleProcessRouteSingle
    \/ \E r \in requests : \E ok \in BOOLEAN : RequestSettles(r, ok)
    \/ closePopup
    \/ fadeOutTimeout
    \/ changeTitleTimeout

PageSpec == PageInit /\ [][PageNext]_vars

\* A fetch in flight settles: the browser resolves or rejects it.
PageFairSpec ==
    PageSpec /\ WF_vars(\E k \in lookups : \E outcome \in LookupOutcomes :
                                LookupSettles(k, outcome))

----------------------------------------------------------------------------
(* Properties *)

Min(a, b) == IF a < b THEN a ELSE b

succeeded == response.status = 200

record == response.record[1]

unitApplied(name) == unit.fn = name /\ unit.applied

\* C1: in every 200 response the four series timestamps, bpmProfile,
\* paceProfile and route have the same length, the number of interpolated
\* points.
C1_SeriesSameLength ==
    succeeded =>
        /\ Len(record.timestamps) = Len(interpolatedPoints)
        /\ Len(record.bpmProfile) = Len(interpolatedPoints)
        /\ Len(record.paceProfile) = Len(interpolatedPoints)
        /\ Len(record.route) = Len(interpolatedPoints)

\* C1, its case: a 200 response whose route is longer than every profile
\* that was generated.
C1_Witness ==
    /\ succeeded
    /\ Len(record.route) > Len(speedProfile)
    /\ Len(speedProfile) > totalTimeSeconds
    /\ totalTimeSeconds > 1

\* C2: every sample createBPMProfile returns, the first included, lies in
\* [60, 200], for every target average heart rate.
C2_BPMInRange ==
    unitApplied("createBPMProfile") =>
        \A i \in 1..Len(unit.out) : unit.out[i] >= 60000 /\ unit.out[i] <= 200000

\* C3: every sample createCadenceProfile returns, the first included, lies
\* in [30, 150], for every target average cadence.
C3_CadenceInRange ==
    unitApplied("createCadenceProfile") =>
        \A i \in 1..Len(unit.out) : unit.out[i] >= 30000 /\ unit.out[i] <= 150000

\* C4: every value createSpeedProfile returns, the first included, is at
\* least 0.9 x the target average speed, and is positive when the target is.
C4_SpeedFloor ==
    unitApplied("createSpeedProfile") =>
        /\ Len(unit.out) = unit.totalSeconds
        /\ \A i \in 1..Len(unit.out) :
              /\ 10 * unit.out[i] >= 9 * unit.avgSpeed
              /\ unit.avgSpeed > 0 => unit.out[i] > 0

\* C4, its case: with the handler's target and decline a sample after the
\* first was raised to the floor, and another one lies above the target.
C4_Witness ==
    /\ unitApplied("createSpeedProfile")
    /\ unit.avgSpeed = AvgSpeed /\ unit.speedDecrease = SpeedDecrease
    /\ \E i \in 2..Len(unit.out) : 10 * unit.out[i] = 9 * AvgSpeed
    /\ \E i \in 2..Len(unit.out) : unit.out[i] > AvgSpeed

\* C5: at every index that has an aligned speed sample s the pace is 999.0
\* when s <= 0 and 1000 / (60 s) when s > 0.
C5_PaceOfSpeed ==
    unitApplied("paceProfile") =>
        \A i \in 1..Min(Len(unit.speed), unit.total) :
            /\ unit.speed[i] <= 0 => unit.out[i] = 999000
            /\ unit.speed[i] > 0 => unit.out[i] = 1000000000 \div (60 * unit.speed[i])

\* C5, its case: a pace series with a stalled sample (speed 0), a sample of
\* negative speed and a moving sample.
C5_Witness ==
    /\ unitApplied("paceProfile")
    /\ unit.total >= 3 /\ Len(unit.speed) >= 3
    /\ unit.speed[1] = 0 /\ unit.out[1] = 999000
    /\ unit.speed[2] < 0 /\ unit.out[2] = 999000
    /\ unit.speed[3] = 1500 /\ unit.out[3] = 11111

\* C6: generateTimestamps(n, interval, start) returns n instants, the i-th
\* (from 0) being start + i * interval: the first is start, and each next one
\* is later by exactly interval.
C6_Timestamps ==
    unitApplied("generateTimestamps") =>
        /\ Len(unit.out) = unit.numPoints
        /\ unit.numPoints > 0 => unit.out[1] = unit.startTime
        /\ \A i \in 1..(Len(unit.out) - 1) :
              /\ unit.out[i + 1] - unit.out[i] = unit.intervalSeconds
              /\ unit.out[i + 1] > unit.out[i]

\* C6, its case: several instants, one second apart as in the handler.
C6_Witness ==
    /\ unitApplied("generateTimestamps")
    /\ unit.numPoints >= 3 /\ unit.intervalSeconds = 1
    /\ unit.out[3] = unit.startTime + 2

\* C7: two runs with the same inputs and the same draws of the random source
\* produce the same response, timestamps included.
C7_Deterministic ==
    ( /\ first.served
      /\ pc = "done"
      /\ first.routeLength = routeLength
      /\ first.gpxData = gpxData
      /\ first.drawn = drawn )
    => response = first.response

\* C8: with exactly one usable waypoint the handler ends with the empty-route
\* error and no record.
C8_SinglePointIsError ==
    (pc = "done" /\ Len(points) = 1 /\ response.status # 400) =>
        /\ response.status = 500
        /\ response.error = "No track points found in the route."
        /\ response.record = << >>

FatalErrors ==
    { "An error occurred while fetching GPX data",
      "An error occurred while parsing GPX data",
      "No track points found in the route." }

SynthesisSteps ==
    { "speed", "elevation", "bpm", "cadence", "route", "reconciled",
      "timestamps", "bpmProfile", "paceProfile", "routeArray" }

\* C9: a fatal condition (fetch failure, parse failure, no usable waypoint)
\* ends the request with an error, no synthesis step having run and no record
\* field sent; a record is sent only after all the series were built.
C9_AllOrNothing ==
    /\ response.status # 200 => response.record = << >>
    /\ response.error \in FatalErrors =>
          /\ pc = "done" /\ response.status = 500
          /\ built = {} /\ drawn = << >>
          /\ speedProfile = << >> /\ bpmProfileFloat = << >>
          /\ interpolatedPoints = << >> /\ timestamps = << >>
    /\ pc \notin {"bind", "fetch", "parse", "check", "done"} =>
          gpxData.wellFormed /\ Len(points) > 0
    /\ response.record # << >> =>
          /\ succeeded /\ pc = "done"
          /\ built = SynthesisSteps
          /\ gpxData.wellFormed /\ Len(points) > 0

\* C9, its case: every route point was malformed, so no waypoint was usable.
C9_Witness ==
    /\ response.error = "No track points found in the route."
    /\ gpxData.rtepts # << >>
    /\ pc = "done"

\* C10: with at least one usable waypoint the handler never panics, whatever
\* the route length.
C10_NoPanic == Len(points) >= 1 => pc # "panicked"

----------------------------------------------------------------------------
(* Route parsing *)

\* The positions of the route points whose three fields are all numeric.
numericAt(rtepts) ==
    { j \in 1..Len(rtepts) : rtepts[j].lat.ok /\ rtepts[j].lon.ok /\ rtepts[j].ele.ok }

\* parseGPX has returned: the handler is past line 197.
parseReturned ==
    /\ pc \notin { "bind", "fetch", "parse" }
    /\ response.error \notin { "Invalid request",
                               "An error occurred while fetching GPX data" }

\* C11: parseGPX keeps exactly the route points whose lat, lon and ele are
\* all numeric, in their original order; a malformed point never makes it
\* return an error (only XML that does not parse does), and the request is
\* answered "No track points found" only when no point remains.
C11_DropsMalformedPoints ==
    LET rtepts == gpxData.rtepts
        kept   == numericAt(rtepts)
        rank(j) == Cardinality({ i \in kept : i <= j })
    IN parseReturned =>
         /\ (response.error = "An error occurred while parsing GPX data")
               <=> ~ gpxData.wellFormed
         /\ gpxData.wellFormed =>
               /\ Len(points) = Cardinality(kept)
               /\ \A j \in kept :
                     /\ points[rank(j)].lat = rtepts[j].lat.v
                     /\ points[rank(j)].lon = rtepts[j].lon.v
                     /\ points[rank(j)].ele = rtepts[j].ele.v
         /\ (response.error = "No track points found in the route.")
               => (gpxData.wellFormed /\ numericAt(gpxData.rtepts) = {})

\* A route with a bad latitude in front and a bad longitude behind was
\* parsed to its two good points and synthesised.
C11_Witness ==
    /\ succeeded
    /\ Len(gpxData.rtepts) = 4
    /\ ~ gpxData.rtepts[1].lat.ok
    /\ ~ gpxData.rtepts[4].lon.ok
    /\ Len(points) = 2

----------------------------------------------------------------------------
(* Profile lengths *)

\* The profiles are as their generators returned them: the handler is in
\* the interpolation loop, before lines 265-286 pad or cut them.
profilesGenerated == pc = "interpolate"

\* C12: the speed, heart-rate and cadence profiles generated for one run all
\* have the same length, the horizon that sized the speed profile and the
\* elevation-change series.
C12_ProfilesHaveHorizonLength ==
    profilesGenerated =>
        /\ Len(speedProfile) = horizon(routeLength)
        /\ Len(bpmProfileFloat) = horizon(routeLength)
        /\ Len(cadenceProfile) = horizon(routeLength)

\* C13: when the speed profile is shorter than the interpolated trajectory,
\* every pace sample at an index past its end equals the pace derived from
\* the last speed sample.
C13_PacePaddedWithLastSpeed ==
    succeeded =>
        \A i \in (Len(speedProfile) + 1) .. Len(record.paceProfile) :
            record.paceProfile[i] = paceOf(speedProfile[Len(speedProfile)])

----------------------------------------------------------------------------
(* Interpolation of one segment *)

\* The route of a single-segment request: interpolatePoints applied at
\* elapsed time 0 to a speed profile of the handler.
singleSegmentRoute ==
    /\ unitApplied("interpolatePoints")
    /\ unit.currentTime = 0
    /\ unit.speedProfile \in HandlerSpeedProfiles

\* C14: for a single-segment route (and for two waypoints about 1.11 km
\* apart at target speed 1.5 m/s in particular) the number of route samples
\* is within a few seconds (here 5) of segment distance / target average
\* speed.
C14_SampleCountNearDistanceOverSpeed ==
    singleSegmentRoute =>
        Abs(Len(unit.out) - TruncDiv(haversineDistance(unit.p1, unit.p2), AvgSpeed)) <= 5

\* C15: for a segment whose two waypoints have the same elevation, every
\* interpolated sample has that elevation, whatever the speed and the
\* number of samples.
C15_FlatSegmentStaysFlat ==
    (unitApplied("interpolatePoints") /\ unit.p1.ele = unit.p2.ele) =>
        \A i \in 1..Len(unit.out) : unit.out[i].ele = unit.p1.ele

\* A flat segment 5 m above zero was interpolated into several samples.
C15_Witness ==
    /\ unitApplied("interpolatePoints")
    /\ unit.p1.ele = 5000
    /\ unit.p2.ele = 5000
    /\ unit.p1.lat # unit.p2.lat
    /\ Len(unit.out) > 1

----------------------------------------------------------------------------
(* Elevation-change series *)

\* C16: the elevation-change series handed to the profile generators has
\* exactly horizon entries: the per-segment entries in order, followed by
\* zeros when they are fewer than the horizon, cut to the first horizon
\* entries when they are more.
C16_ElevationHasHorizonLength ==
    LET raw == extractElevation(points, 1)
    IN  "elevation" \in built =>
            /\ Len(elevationChanges) = horizon(routeLength)
            /\ \A i \in 1..Len(elevationChanges) :
                   elevationChanges[i] = IF i <= Len(raw) THEN raw[i] ELSE 0

\* The segments of a hilly route gave more entries than the horizon, and
\* the series was cut in the middle of a descent.
C16_Witness ==
    /\ "elevation" \in built
    /\ Len(extractElevation(points, 1)) > Len(elevationChanges)
    /\ elevationChanges[Len(elevationChanges)] < 0

----------------------------------------------------------------------------
(* Runs side by side *)

\* The speed profile request r computes when it is the only one running:
\* its draws are the first ConcHorizon outputs of the source.
speedProfileAlone ==
    createSpeedProfile(ConcHorizon, AvgSpeed, SpeedDecrease,
                       SubSeq(globalRand.outputs, 1, ConcHorizon))

\* C17: synthesis runs share no mutable state: what a request computes is
\* what it computes when it runs alone, whether or not the other request
\* runs and however their steps interleave.
C17_RunsIndependent ==
    \A r \in DOMAIN runs :
        runs[r].pc = "done" => runs[r].speedProfile = speedProfileAlone

----------------------------------------------------------------------------
(* The interpolation loop *)

\* C18: the handler advances elapsed time by the number of samples the
\* interpolator emitted for the segment (at least 1), so after any prefix of
\* segments elapsed time equals the number of route samples emitted so far.
C18_ElapsedTimeIsSampleCount ==
    pc \in { "interpolate", "reconcile" } => currentTime = Len(interpolatedPoints)

\* The handler is about to call interpolatePoints for the next pair.
callsInterpolatePoints == pc = "interpolate" /\ segIndex < Len(points) - 1

\* C19: the elapsed-time index passed to interpolatePoints, and used by the
\* handler to read the speed profile, is a valid index of the speed profile,
\* so the clamp to the last index in interpolatePoints is never taken.
C19_ElapsedTimeIndexesSpeedProfile ==
    callsInterpolatePoints =>
        (0 <= currentTime /\ currentTime < Len(speedProfile))

\* A later segment is interpolated at a positive elapsed time.
C19_Witness ==
    /\ callsInterpolatePoints
    /\ segIndex >= 1
    /\ currentTime > 0

----------------------------------------------------------------------------
(* Reconciliation *)

\* after is before brought to length total: its first values when before is
\* longer, before followed by copies of its last value when it is shorter.
reconciled(before, after, total) ==
    /\ Len(after) = total
    /\ \A i \in 1..total :
          after[i] = IF i <= Len(before) THEN before[i] ELSE before[Len(before)]

\* C20: reconciliation leaves the heart-rate and cadence series with exactly
\* the trajectory length: a longer generated profile is cut to its first
\* totalInterpolated values, and every sample appended to a shorter one
\* equals the last value of the generated profile.
C20_ReconciledToTrajectoryLength ==
    [][pc = "reconcile" =>
         /\ reconciled(bpmProfileFloat, bpmProfileFloat', Len(interpolatedPoints))
         /\ reconciled(cadenceProfile, cadenceProfile', Len(interpolatedPoints))]_vars

\* Both profiles were generated with fewer values than the trajectory has
\* samples and have been padded.
C20_Witness ==
    /\ pc = "timestamps"
    /\ Len(interpolatedPoints) > totalTimeSeconds
    /\ Len(bpmProfileFloat) = Len(interpolatedPoints)
    /\ Len(cadenceProfile) = Len(interpolatedPoints)

----------------------------------------------------------------------------
(* Elevation changes per waypoint pair *)

\* The whole seconds pair k of pts takes at the assumed speed.
pairSeconds(pts, k) == TruncDiv(haversineDistance(pts[k], pts[k + 1]), AvgSpeed)

\* The entries the pairs before pair k contribute.
RECURSIVE entriesBefore(_, _)
entriesBefore(pts, k) ==
    IF k <= 1 THEN 0 ELSE entriesBefore(pts, k - 1) + pairSeconds(pts, k - 1)

\* C21: before padding and truncation, each waypoint pair contributes, in
\* waypoint order, exactly n = int(distance / AvgSpeed) entries, each equal
\* to its elevation delta divided by n; a pair with n = 0 contributes
\* nothing and nothing is divided by zero.
C21_ElevationEntriesPerPair ==
    unitApplied("elevationChanges") =>
        LET pts == unit.points
        IN  /\ Len(unit.out) = entriesBefore(pts, Len(pts))
            /\ \A k \in 1..(Len(pts) - 1) :
                  \A j \in 1..pairSeconds(pts, k) :
                      unit.out[entriesBefore(pts, k) + j]
                          = TruncDiv(pts[k + 1].ele - pts[k].ele, pairSeconds(pts, k))

\* A climb too short for one second of travel is followed by a descent of
\* several seconds: the series holds the descent's entries only.
C21_Witness ==
    /\ unitApplied("elevationChanges")
    /\ Len(unit.points) = 3
    /\ pairSeconds(unit.points, 1) = 0
    /\ unit.points[2].ele > unit.points[1].ele
    /\ pairSeconds(unit.points, 2) > 1
    /\ unit.points[3].ele < unit.points[2].ele
    /\ Len(unit.out) = pairSeconds(unit.points, 2)

----------------------------------------------------------------------------
(* Samples of one segment *)

\* max(1, int(distance / speed)) for the segment interpolatePoints was
\* applied to.
expectedSamples ==
    LET d == Abs(unit.p2.lat - unit.p1.lat)
        n == d \div speedAt(unit.speedProfile, unit.currentTime)
    IN  IF n < 1 THEN 1 ELSE n

\* p1.Ele + (p2.Ele - p1.Ele) * i / n in exact arithmetic.
linearEle(i) ==
    unit.p1.ele + TruncDiv((unit.p2.ele - unit.p1.ele) * i, expectedSamples)

\* One rounding step at the magnitude of the two elevations.
eleRounding == ulpOf(Abs(unit.p1.ele) + Abs(unit.p2.ele))

alongTrack(i) == speedAt(unit.speedProfile, unit.currentTime) * i

\* C23: no interpolated sample lies beyond the end of its segment: the
\* along-track distance speed * i of every emitted sample is at most the
\* distance between the segment's two waypoints, also for segments shorter
\* than one second of travel and for zero-length segments.
C23_NoSampleBeyondSegmentEnd ==
    unitApplied("interpolatePoints") =>
        \A i \in 1..Len(unit.out) :
            /\ alongTrack(i) <= haversineDistance(unit.p1, unit.p2)
            /\ Abs(unit.out[i].lat - unit.p1.lat) <= haversineDistance(unit.p1, unit.p2)

----------------------------------------------------------------------------
(* The throttle *)

\* C24: under every interleaving of requests and resets a client's Count
\* never exceeds CLIENT_USE_THRESHOLD, and at most that many requests of one
\* client are passed on between two consecutive resets of its counter.
C24_CountWithinThreshold ==
    \A ip \in DOMAIN client_counter :
        /\ client_counter[ip].Count <= CLIENT_USE_THRESHOLD
        /\ admitted[ip] <= CLIENT_USE_THRESHOLD

\* After a reset a client has used up its five requests again and the next
\* one has been rejected.
C24_Witness ==
    \E ip \in DOMAIN client_counter :
        /\ client_counter[ip].Count = CLIENT_USE_THRESHOLD
        /\ admitted[ip] = CLIENT_USE_THRESHOLD
        /\ client_counter[ip].LastSeen >= CLIENT_USE_RESET_TIME
        /\ \E c \in DOMAIN calls : calls[c].pc = "aborted" /\ calls[c].clientIP = ip

\* A resetClientCounter goroutine of ip is asleep or on its way to the lock.
resetPending(ip) == \E g \in resetters : g.clientIP = ip

\* C25: no client is throttled forever: in every reachable state where a
\* client's Count has reached the threshold a reset of its counter is still
\* pending, so the client is eventually admitted again.
C25_ResetPendingWhenThrottled ==
    \A ip \in DOMAIN client_counter :
        (client_counter[ip].exists /\ throttled(client_counter[ip])) => resetPending(ip)

\* The call c leaves its section in this step.
leavesSection(c) == calls[c].pc = "section" /\ calls'[c].pc # "section"

\* C26: a request rejected with 429 leaves the client counter map as it
\* was (no Count or LastSeen changed, no entry added or removed), starts no
\* reset goroutine, releases the mutex and is not passed to the next
\* handler.
C26_RejectionChangesNothing ==
    [][\A c \in DOMAIN calls :
          (leavesSection(c) /\ throttled(client_counter[calls[c].clientIP])) =>
              /\ client_counter' = client_counter
              /\ resetters' = resetters
              /\ mu = "held" /\ mu' = "free"
              /\ calls'[c].pc = "aborted"]_vars

\* A request of a client at the threshold has been rejected while another
\* request waits for the lock.
C26_Witness ==
    \E c \in DOMAIN calls :
        /\ calls[c].pc = "aborted"
        /\ client_counter[calls[c].clientIP].Count = CLIENT_USE_THRESHOLD
        /\ mu = "free"
        /\ \E d \in DOMAIN calls : calls[d].pc = "lock"

\* The entries of the clients other than ip are left as they are.
othersUntouched(ip) ==
    \A other \in DOMAIN client_counter :
        other # ip => client_counter'[other] = client_counter[other]

\* C27: the counters are independent per client identity: a request or a
\* counter reset for one client IP never changes another client's entry,
\* and a client is rejected exactly when its own Count has reached the
\* threshold.
C27_ClientsIndependent ==
    [][/\ \A c \in DOMAIN calls :
             leavesSection(c) =>
                 /\ othersUntouched(calls[c].clientIP)
                 /\ (calls'[c].pc = "aborted")
                        <=> throttled(client_counter[calls[c].clientIP])
       /\ \A g \in resetters :
             (g.pc = "section" /\ g \notin resetters') => othersUntouched(g.clientIP)]_vars

\* One client is at the threshold and has been rejected while the other,
\* with a counter of its own, has been passed on.
C27_Witness ==
    \E c, d \in DOMAIN calls :
        /\ calls[c].pc = "aborted"
        /\ calls[d].pc = "next"
        /\ calls[c].clientIP # calls[d].clientIP
        /\ client_counter[calls[c].clientIP].Count = CLIENT_USE_THRESHOLD
        /\ client_counter[calls[d].clientIP].exists
        /\ client_counter[calls[d].clientIP].Count < CLIENT_USE_THRESHOLD

----------------------------------------------------------------------------
(* The page *)

\* The button was pressed with no marker placed.
pressedWithoutMarker == Len(markers) < 1 /\ event' = "noMarker"

\* A request in flight has failed in this step.
requestFailed == requests' # requests /\ event' = "failed"

\* C28: with no marker placed handleProcessRouteSingle sends no request and
\* leaves the state as it is; when the request fails processedData and
\* showPopup keep their values; the popup is rendered only while
\* processedData is non-null and showPopup is true, and never before a
\* response has succeeded.
C28_PopupOnlyAfterSuccess ==
    /\ [](popupRendered => successes > 0)
    /\ [](successes = 0 => (processedData = 0 /\ ~ showPopup))
    /\ [][/\ pressedWithoutMarker =>
                 /\ requests' = requests
                 /\ sent' = sent
                 /\ markers' = markers
                 /\ processedData' = processedData
                 /\ showPopup' = showPopup
          /\ requestFailed =>
                 /\ processedData' = processedData
                 /\ showPopup' = showPopup]_vars

\* The popup had been closed, and a later request has failed: the popup
\* stays closed over the data of the earlier response.
C28_Witness ==
    /\ event = "failed"
    /\ processedData # 0
    /\ ~ showPopup
    /\ successes = 1

\* How often click k has a marker in the list.
markersOf(k) == Cardinality({ i \in 1..Len(markers) : markers[i].click = k })

\* C29: every map click eventually appends exactly one marker to the
\* markers list, whether its lookup succeeds or fails, and however the
\* lookups in flight complete no click's marker is lost or duplicated: the
\* list holds one marker for every click that has settled, until Clear
\* Markers removes it.
C29_OneMarkerPerClick ==
    /\ [](\A k \in DOMAIN appended :
             /\ appended[k] = (IF k <= clicks /\ k \notin lookups THEN 1 ELSE 0)
             /\ markersOf(k) = (IF k \in cleared THEN 0 ELSE appended[k]))
    /\ \A k \in 1..MaxClicks : (clicks >= k) ~> (appended[k] = 1)

\* Two lookups were in flight and the second click's settled first, one
\* rejected and one with a name: both markers are in the list.
C29_Witness ==
    /\ Len(markers) = 2
    /\ markers[1].click = 2
    /\ markers[2].click = 1
    /\ markers[1].address # markers[2].address

\* Part_001 lines 15-18: the step in which the change-title timeout runs.
titleChanges == "changeTitle" \in timers /\ event' = "changeTitle"

\* C30: for a non-empty titles list currentIndex is always a valid index
\* of it; each elapsed interval moves it to the next index modulo
\* titles.length and nothing else moves it while the title is mounted; the
\* fade-out (fade = false) has happened when the title changes and fade is
\* true again right after the change.
C30_TitlesCycleInOrder ==
    /\ [](currentIndex \in 0..(titlesLength - 1))
    /\ [][/\ titleChanges =>
                /\ currentIndex' = (currentIndex + 1) % titlesLength
                /\ fade = FALSE
                /\ fade' = TRUE
          /\ (currentIndex' # currentIndex) => (titleChanges \/ event' = "closed")]_vars

\* Six titles have been shown in order and the first one is back.
C30_Witness ==
    /\ titlesLength = 6
    /\ event = "changeTitle"
    /\ currentIndex = 0
    /\ fade
    /\ timers = AllTimers

====
